---- MODULE Spec2Model ----
(***************************************************************************)
(* A model of the timeld Gateway (packages/gateway): the lifecycle of the  *)
(* per-timesheet m-ld clones kept in Gateway.timesheetDomains, the root    *)
(* ("gateway") domain with its state lock, and the activation / token /    *)
(* REST layer in front of it.                                              *)
(*                                                                         *)
(* Node runs the code on one thread, so every action below is the code     *)
(* between two awaits.  The m-ld state lock of the root domain is shared   *)
(* by read procedures and exclusive for write procedures and for update    *)
(* handlers (whose returned promise the engine awaits).                    *)
(***************************************************************************)
EXTENDS Integers, Sequences, FiniteSets, TLC

VARIABLES
  phase,      \* how far Gateway.initialise has come
  owns,       \* root domain: the timesheet references of the accounts
  types,      \* root domain: the @type of the subject of each owned id
  accRec,     \* root domain: accounts with an Account record of their own
  emails,     \* root domain: the email property of each account
  table,      \* Gateway.timesheetDomains: domain name -> handle (0: no key)
  handles,    \* per domain name, the clones the substrate has opened
  tomb,       \* the <data path>.rip files on disk
  lockW,      \* calls holding the root state lock exclusively
  lockR,      \* calls sharing the root state lock
  add,        \* timesheetAdded tasks of the running update handler or scan
  rem,        \* timesheetRemoved tasks of the running update handler
  scanTodo,   \* timesheet references the initial scan has yet to deliver
  calls,      \* the requests in progress
  genCalls,   \* per domain, clone invocations with genesis=true (saturating)
  now         \* the clock, in minutes

vars == <<phase, owns, types, accRec, emails, table, handles, tomb, lockW,
          lockR, add, rem, scanTodo, calls, genCalls, now>>

-----------------------------------------------------------------------------
(* Bounds *)

MaxCalls == 2
MaxClones == 2
MaxCount == 2
\* the clock runs from 0 to MaxTime minutes in steps of TickStep
MaxTime == 10
TickStep == 5

-----------------------------------------------------------------------------
(* Identifiers *)

GatewayDomain == "ex.org"
Accounts == {"acme", "test"}
Names == {"ts1", "ts2"}
ProjectNames == {"pr1"}
Emails == {"a@ex.org", "b@ex.org"}
CallIds == 1..MaxCalls

\* AccountOwnedId: (account, name) at this gateway
TsIds == [account : Accounts, name : Names]
\* the ids of projects, and every id report can be asked for
ProjectIds == [account : {"acme"}, name : ProjectNames]
OwnedIds == TsIds \cup ProjectIds
\* the @type of a subject of the root domain; "none" when it has no subject
Types == {"none", "Timesheet", "Project", "Account"}

\* AccountOwnedId.toDomain: name.account.gateway
toDomain(tsId) == tsId.name \o "." \o tsId.account \o "." \o GatewayDomain

\* Gateway.getDataPath: data/tsh/<account>/<name>
getDataPath(tsId) == <<"data", "tsh", tsId.account, tsId.name>>

Domains == {toDomain(t) : t \in TsIds}

\* the timesheet the requests and root updates of Spec are about
Focus == {[account |-> "acme", name |-> "ts1"]}

Inc(n) == IF n < MaxCount THEN n + 1 ELSE n

-----------------------------------------------------------------------------
(* The substrate: clones and the root state lock *)

\* a clone as the substrate returns it from clone(config, path); a closed
\* clone that nothing refers to any more is "none" again
CloneIds == 1..MaxClones
NoHandle == [genesis |-> FALSE, state |-> "none", online |-> FALSE]
NewHandle(genesis) == [genesis |-> genesis, state |-> "open", online |-> FALSE]
Live(dom) == {h \in CloneIds : handles[dom][h].state # "none"}
FreeId(dom) == CHOOSE h \in CloneIds \ Live(dom) : \A g \in CloneIds \ Live(dom) : h <= g

InTable(tsId) == table[toDomain(tsId)] # 0

\* timesheetAdded tasks and calls that have invoked clone and await its result
CloningTasks(dom) == {t \in TsIds : toDomain(t) = dom /\ add[t] = "cloning"}
CloningCalls(dom) ==
  {c \in CallIds : calls[c].pc \in {"cfg_clone", "rpt_clone"}
                   /\ toDomain(calls[c].tsId) = dom}
CloningFlows(dom) ==
  {c \in CallIds : \E t \in TsIds : toDomain(t) = dom /\ calls[c].fl[t].pc = "clone"}
InFlight(dom) ==
  Cardinality(CloningTasks(dom)) + Cardinality(CloningCalls(dom))
    + Cardinality(CloningFlows(dom))

\* the model has at most MaxClones clones of a domain at a time
CanClone(tsId) ==
  Cardinality(Live(toDomain(tsId))) + InFlight(toDomain(tsId)) < MaxClones

\* the update handler runs under the state lock until its promise settles
HandlerBusy == phase = "ready" /\ \E t \in TsIds : add[t] # "idle" \/ rem[t] # "idle"
\* the scan of initialise reads under the state lock until its results end
Scanning == phase = "scanning"

\* a procedure given to domain.read shares the lock with other reads
ReadLockFree == lockW = {} /\ ~HandlerBusy
\* the lock as it would be if write procedures shared it
WriteLockFree_shared == ~HandlerBusy /\ ~Scanning
\* a procedure given to domain.write has the lock to itself
WriteLockFree == lockW = {} /\ lockR = {} /\ ~HandlerBusy /\ ~Scanning

\* a server that listens as soon as the root domain is cloned
Serving_early == phase \in {"outdated", "scanning", "ready"}
\* the server listens once initialise has returned
Serving == phase \in {"scanning", "ready"}


rootVars == <<owns, types, accRec, emails>>
cloneVars == <<table, handles>>
lockVars == <<lockW, lockR>>
taskVars == <<add, rem, scanTodo>>

-----------------------------------------------------------------------------
(* Requests *)

NoTs == CHOOSE t \in TsIds : TRUE
NoAccount == CHOOSE a \in Accounts : TRUE

\* a MeldConfig; "undefined" stands for a key the object does not have
ConfigKeys == {"@id", "@domain", "@context", "genesis", "ably.key"}
NoConfig == [k \in ConfigKeys |-> "undefined"]

\* a JWT: its payload, the secret it is signed under and its expiry
NoToken == [email |-> "none", secret |-> "none", exp |-> 0]
\* the token encrypted under a code, and what activation returns
NoJwe == [key |-> <<>>, jwt |-> NoToken]
\* what the notifier was given, and the body of the response to /api/jwe
NoSent == [email |-> "none", code |-> <<>>]
NoResp == [jwe |-> NoJwe, code |-> <<>>]
\* the write transaction a constraint is asked about
NoWrite == [pid |-> "none", subs |-> <<>>, inPlace |-> FALSE]

\* one reportTimesheet of a report on a project: where it is, and its clone
NoFlow == [pc |-> "none", h |-> 0]
FlowRunning(call) == \E t \in TsIds : call.fl[t].pc \in {"clone", "online", "read"}

IdleCall ==
  [op |-> "idle", pc |-> "idle", via |-> "direct",
   tsId |-> NoTs, user |-> NoAccount, email |-> "none",
   auth |-> "none", gw |-> FALSE,
   tombed |-> FALSE, owned |-> FALSE, how |-> "none", genesis |-> FALSE, h |-> 0,
   res |-> "none", err |-> "none", cfg |-> NoConfig,
   jwe |-> NoJwe, code |-> <<>>, claims |-> "none", forged |-> FALSE, expired |-> FALSE,
   at |-> 0, tok |-> NoToken,
   order |-> <<>>, fl |-> [t \in TsIds |-> NoFlow], part |-> [t \in TsIds |-> <<>>],
   fin |-> <<>>, out |-> <<>>,
   orCreate |-> FALSE, acc |-> "none", made |-> FALSE,
   sent |-> NoSent, resp |-> NoResp, wr |-> NoWrite]

Fail(c, e) == [calls EXCEPT ![c].pc = "done", ![c].res = "error", ![c].err = e]

-----------------------------------------------------------------------------
(* Gateway.initialise *)

\* the state after the constructor: the root domain holds what earlier runs
\* and other clones left in it, no timesheet clone is open
Constructed ==
  /\ phase = "constructed"
  /\ owns \in SUBSET TsIds
  /\ types \in [OwnedIds -> Types]
  /\ accRec \in SUBSET Accounts
  /\ emails \in [Accounts -> SUBSET Emails]
  /\ \A a \in Accounts : emails[a] # {} => a \in accRec
  /\ table = [d \in Domains |-> 0]
  /\ handles = [d \in Domains |-> [h \in CloneIds |-> NoHandle]]
  /\ tomb = {}
  /\ lockW = {}
  /\ lockR = {}
  /\ add = [t \in TsIds |-> "idle"]
  /\ rem = [t \in TsIds |-> "idle"]
  /\ scanTodo = {}
  /\ calls = [c \in CallIds |-> IdleCall]
  /\ genCalls = [d \in Domains |-> 0]
  /\ now = 0

Init ==
  /\ types \in {f \in [OwnedIds -> {"none", "Timesheet"}] :
                  \A id \in OwnedIds \ Focus : f[id] = "none"}
  /\ Constructed
  /\ owns \subseteq Focus
  /\ accRec = {}

\* this.domain = await this.clone(this.config, dataDir)
InitCloneRoot ==
  /\ phase = "constructed"
  /\ \E ok \in BOOLEAN : phase' = IF ok THEN "outdated" ELSE "failed"
  /\ UNCHANGED <<rootVars, cloneVars, tomb, lockVars, taskVars, calls, genCalls, now>>

\* await this.domain.status.becomes({ outdated: false }), then domain.read
\* starts the scan of the timesheet references and initialise returns
InitScan ==
  /\ phase = "outdated"
  /\ phase' = "scanning"
  /\ scanTodo' = owns
  /\ UNCHANGED <<rootVars, cloneVars, tomb, lockVars, add, rem, calls, genCalls, now>>

\* the synchronous part of timesheetAdded: clone unless the key is in the table
timesheetAddedStart(tsId) == IF InTable(tsId) THEN "idle" ELSE "cloning"

\* the scan delivers the next reference once the last timesheetAdded settled
ScanNext(t) ==
  /\ phase = "scanning"
  /\ \A u \in TsIds : add[u] = "idle"
  /\ t \in scanTodo
  /\ InTable(t) \/ CanClone(t)
  /\ add' = [add EXCEPT ![t] = timesheetAddedStart(t)]
  /\ scanTodo' = scanTodo \ {t}
  /\ UNCHANGED <<phase, rootVars, cloneVars, tomb, lockVars, rem, calls, genCalls, now>>

\* the scan's results are complete: its hold on the state lock ends
ScanEnd ==
  /\ phase = "scanning"
  /\ scanTodo = {}
  /\ \A t \in TsIds : add[t] = "idle"
  /\ phase' = "ready"
  /\ UNCHANGED <<rootVars, cloneVars, tomb, lockVars, taskVars, calls, genCalls, now>>

-----------------------------------------------------------------------------
(* cloneTimesheet and timesheetAdded *)

\* cloneTimesheet: the clone resolves, and only then the table gets its key
\* a clone that is made as the first of its domain whatever was asked
cloneTimesheetOk_asGenesis(tsId, genesis) ==
  LET dom == toDomain(tsId)
  IN /\ handles' = [handles EXCEPT ![dom][FreeId(dom)] = NewHandle(TRUE)]
     /\ table' = [table EXCEPT ![dom] = FreeId(dom)]
cloneTimesheetOk(tsId, genesis) ==
  LET dom == toDomain(tsId)
  IN /\ handles' = [handles EXCEPT ![dom][FreeId(dom)] = NewHandle(genesis)]
     /\ table' = [table EXCEPT ![dom] = FreeId(dom)]

\* a timesheetAdded that rejects with the failure of the clone
addCaught_rethrown == "thrown"
\* catch (e) { LOG.warn(...) }: timesheetAdded completes as it does after a
\* clone that opened
addCaught == "idle"

\* timesheetAdded: await this.cloneTimesheet(tsId); a failure is logged
AddCloned(t) ==
  /\ add[t] = "cloning"
  /\ \/ /\ add' = [add EXCEPT ![t] = "idle"]
        /\ cloneTimesheetOk(t, FALSE)
     \/ /\ add' = [add EXCEPT ![t] = addCaught]
        /\ UNCHANGED cloneVars
  /\ UNCHANGED <<phase, rootVars, tomb, lockVars, rem, scanTodo, calls, genCalls, now>>

-----------------------------------------------------------------------------
(* The update handler of the root domain and timesheetRemoved *)

\* the synchronous part of timesheetRemoved: close() of the table's clone
timesheetRemovedStart(tsId) == IF InTable(tsId) THEN "closing" ELSE "rm"

Closing(hs, tsIds) ==
  [d \in Domains |->
     [h \in CloneIds |->
        IF table[d] = h /\ \E t \in tsIds : toDomain(t) = d
        THEN [hs[d][h] EXCEPT !.state = "closing", !.online = FALSE]
        ELSE hs[d][h]]]

\* another writer of the root domain deletes and inserts timesheet
\* references; the engine applies the update and runs the handler on it
RootUpdate(del, ins) ==
  /\ phase = "ready"
  /\ WriteLockFree
  /\ del \subseteq owns
  /\ ins \subseteq TsIds \ owns
  /\ del \cup ins # {}
  /\ \A t \in ins : InTable(t) \/ CanClone(t)
  /\ owns' = (owns \ del) \cup ins
  /\ rem' = [t \in TsIds |-> IF t \in del THEN timesheetRemovedStart(t) ELSE "idle"]
  /\ add' = [t \in TsIds |-> IF t \in ins THEN timesheetAddedStart(t) ELSE "idle"]
  /\ handles' = Closing(handles, del)
  /\ UNCHANGED <<phase, types, accRec, emails, table, tomb, lockVars, scanTodo,
                 calls, genCalls, now>>

\* a removal that rejects with the failure of its step
removalCaught_rethrown == "thrown"
\* catch (e) { LOG.warn(...) }: the removal completes as one that succeeded
removalCaught == "idle"

\* timesheetRemoved: await close() settles; a failure ends the removal
RemClosed(t) ==
  /\ rem[t] = "closing"
  /\ LET dom == toDomain(t)
     IN \/ /\ rem' = [rem EXCEPT ![t] = "rm"]
           /\ handles' = [handles EXCEPT ![dom][table[dom]].state = "closed"]
        \/ /\ rem' = [rem EXCEPT ![t] = removalCaught]
           /\ \E st \in {"open", "closed"} :
                handles' = [handles EXCEPT ![dom][table[dom]].state = st]
  /\ UNCHANGED <<phase, rootVars, table, tomb, lockVars, add, scanTodo, calls,
                 genCalls, now>>

\* a closed clone that leaves the table is garbage
Forget(hs, dom, h) ==
  IF h # 0 /\ hs[dom][h].state = "closed"
  THEN [hs EXCEPT ![dom][h] = NoHandle] ELSE hs

\* a tombstone kept inside the data directory of its timesheet
ripUnder_inDir(path, dir) == Len(dir) <= Len(path) /\ SubSeq(path, 1, Len(dir)) = dir
\* whether the file <path>.rip is in the tree of directory dir: the file is
\* beside the directory <path>, and no name ends in .rip
ripUnder(path, dir) == Len(dir) < Len(path) /\ SubSeq(path, 1, Len(dir)) = dir
\* rm(dir, { recursive: true, force: true }), for the tombstones on disk
rm(files, dir) == {path \in files : ~ripUnder(path, dir)}

\* timesheetRemoved: getDataPath and rm of the persistent data, writeFile of
\* the tombstone, and then the key is deleted; a failure ends the removal
RemData(t) ==
  /\ rem[t] = "rm"
  /\ \/ /\ rem' = [rem EXCEPT ![t] = "idle"]
        /\ tomb' = rm(tomb, getDataPath(t)) \cup {getDataPath(t)}
        /\ table' = [table EXCEPT ![toDomain(t)] = 0]
        /\ handles' = Forget(handles, toDomain(t), table[toDomain(t)])
     \/ /\ rem' = [rem EXCEPT ![t] = removalCaught]
        /\ \/ tomb' = tomb
           \/ tomb' = rm(tomb, getDataPath(t))
        /\ UNCHANGED <<table, handles>>
  /\ UNCHANGED <<phase, rootVars, lockVars, add, scanTodo, calls, genCalls, now>>

\* a data directory that keeps no tombstones
tsTombstoneExists_never(tsId) == FALSE
\* tsTombstoneExists: access(<path>.rip)
tsTombstoneExists(tsId) == getDataPath(tsId) \in tomb

\* a clone goes online
HandleOnline ==
  /\ \E d \in Domains, h \in CloneIds :
       /\ handles[d][h].state = "open"
       /\ ~handles[d][h].online
       /\ handles' = [handles EXCEPT ![d][h].online = TRUE]
  /\ UNCHANGED <<phase, rootVars, table, tomb, lockVars, taskVars, calls, genCalls, now>>

\* status.becomes({ online: true }) settles: online, or the clone has closed
BecameOnline(dom, h) == handles[dom][h].online \/ handles[dom][h].state = "closed"

-----------------------------------------------------------------------------
(* Configurations *)

\* this.config, as the Gateway constructor builds it
GatewayConfig ==
  [k \in ConfigKeys |->
     CASE k = "@id" -> "gateway-uuid"
       [] k = "@domain" -> GatewayDomain
       [] k = "@context" -> "timeldContext"
       [] k = "genesis" -> "true"
       [] k = "ably.key" -> "id:secret"]

\* Env.mergeConfig: the override wins, and an override of false removes the key
mergeConfig(config, override) ==
  [k \in ConfigKeys |->
     IF k \in DOMAIN override
     THEN (IF override[k] = "false" THEN "undefined" ELSE override[k])
     ELSE config[k]]

\* the config with the secret of the gateway left in
returnedConfig_keepsKey(tsId) ==
  [mergeConfig(GatewayConfig, ("@id" :> "false") @@ ("@domain" :> toDomain(tsId)))
     EXCEPT !["genesis"] = "false"]
\* the config timesheetConfig returns
returnedConfig(tsId) ==
  [mergeConfig(GatewayConfig,
               ("@id" :> "false") @@ ("@domain" :> toDomain(tsId))
                 @@ ("ably.key" :> "false"))
     EXCEPT !["genesis"] = "false"]

-----------------------------------------------------------------------------
(* Gateway.timesheetConfig *)

\* a gateway that always joins
isGenesisTs_never(tsId) == FALSE
\* isGenesisTs: the root does not record the account as having the timesheet
isGenesisTs(tsId) == tsId \notin owns

\* the synchronous start of timesheetConfig: with the key in the table the
\* write transaction is skipped
timesheetConfigStart(call, t) ==
  [call EXCEPT !.op = "cfg", !.tsId = t, !.gw = TRUE,
               !.tombed = getDataPath(t) \in tomb, !.owned = t \in owns,
               !.how = IF InTable(t) THEN "table" ELSE "none",
               !.pc = IF InTable(t) THEN "cfg_ret" ELSE "cfg_lock"]

CfgCall(c, t) ==
  /\ Serving
  /\ calls[c].op = "idle"
  /\ calls' = [calls EXCEPT ![c] = timesheetConfigStart(IdleCall, t)]
  /\ UNCHANGED <<phase, rootVars, cloneVars, tomb, lockVars, taskVars, genCalls, now>>

\* a write procedure that leaves the root domain as it is
writeOwnership_none(tsId) == UNCHANGED <<owns, add>>
\* state.write(accountHasTimesheet(tsId)); the update handler sees the insert
writeOwnership(tsId) ==
  /\ owns' = owns \cup {tsId}
  /\ add' = IF tsId \in owns THEN add
            ELSE [add EXCEPT ![tsId] = timesheetAddedStart(tsId)]

\* a write procedure that records the ownership before initTimesheet throws
conflictThrown_afterWrite(c, tsId) ==
  /\ calls' = Fail(c, "Conflict")
  /\ writeOwnership(tsId)
\* throw new errors.ConflictError(): the write procedure rejects before
\* cloneTimesheet and state.write are reached
conflictThrown(c, tsId) ==
  /\ calls' = Fail(c, "Conflict")
  /\ UNCHANGED <<owns, add>>

\* the write procedure starts under the lock: isGenesisTs, then initTimesheet
\* up to its first await on the clone
CfgWrite(c) ==
  /\ calls[c].pc = "cfg_lock"
  /\ WriteLockFree
  /\ LET t == calls[c].tsId
         genesis == isGenesisTs(t)
     IN IF InTable(t)
        THEN /\ writeOwnership(t)
             /\ calls' = [calls EXCEPT ![c].pc = "cfg_ret", ![c].how = "locked",
                                       ![c].h = table[toDomain(t)]]
             /\ UNCHANGED <<lockW, genCalls>>
        ELSE IF genesis /\ tsTombstoneExists(t)
        THEN /\ conflictThrown(c, t)
             /\ UNCHANGED <<lockW, genCalls>>
        ELSE /\ CanClone(t)
             /\ calls' = [calls EXCEPT ![c].pc = "cfg_clone", ![c].how = "cloned",
                                       ![c].genesis = genesis]
             /\ lockW' = {c}
             /\ genCalls' = IF genesis
                            THEN [genCalls EXCEPT ![toDomain(t)] = Inc(@)]
                            ELSE genCalls
             /\ UNCHANGED <<owns, add>>
  /\ UNCHANGED <<phase, types, accRec, emails, cloneVars, tomb, lockR, rem,
                 scanTodo, now>>

\* cloneTimesheet resolves
CfgCloned(c) ==
  /\ calls[c].pc = "cfg_clone"
  /\ cloneTimesheetOk(calls[c].tsId, calls[c].genesis)
  /\ calls' = [calls EXCEPT ![c].pc = "cfg_online",
                            ![c].h = FreeId(toDomain(calls[c].tsId))]
  /\ UNCHANGED <<phase, rootVars, tomb, lockVars, taskVars, genCalls, now>>

\* cloneTimesheet rejects, and with it the write procedure
CfgCloneFailed(c) ==
  /\ calls[c].pc = "cfg_clone"
  /\ calls' = Fail(c, "CloneFailed")
  /\ lockW' = lockW \ {c}
  /\ UNCHANGED <<phase, rootVars, cloneVars, tomb, lockR, taskVars, genCalls, now>>

\* initTimesheet returns once the clone is online; the ownership is written
\* and the write procedure ends
CfgOwn(c) ==
  /\ calls[c].pc = "cfg_online"
  /\ BecameOnline(toDomain(calls[c].tsId), calls[c].h)
  /\ writeOwnership(calls[c].tsId)
  /\ calls' = [calls EXCEPT ![c].pc = "cfg_ret"]
  /\ lockW' = lockW \ {c}
  /\ UNCHANGED <<phase, types, accRec, emails, cloneVars, tomb, lockR, rem,
                 scanTodo, genCalls, now>>

\* the config required for a new clone is returned
CfgReturn(c) ==
  /\ calls[c].pc = "cfg_ret"
  /\ calls' = [calls EXCEPT ![c].pc = "done", ![c].res = "ok",
                            ![c].cfg = returnedConfig(calls[c].tsId)]
  /\ UNCHANGED <<phase, rootVars, cloneVars, tomb, lockVars, taskVars, genCalls, now>>

\* the caller has its answer
Retire(c) ==
  /\ calls[c].pc = "done"
  /\ ~FlowRunning(calls[c])
  /\ calls' = [calls EXCEPT ![c] = IdleCall]
  /\ UNCHANGED <<phase, rootVars, cloneVars, tomb, lockVars, taskVars, genCalls, now>>

-----------------------------------------------------------------------------
(* Gateway.report *)

reportStart(call, t) ==
  [call EXCEPT !.op = "rpt", !.tsId = t, !.gw = TRUE, !.pc = "rpt_lock"]

RptCall(c, t) ==
  /\ Serving
  /\ calls[c].op = "idle"
  /\ calls' = [calls EXCEPT ![c] = reportStart(IdleCall, t)]
  /\ UNCHANGED <<phase, rootVars, cloneVars, tomb, lockVars, taskVars, genCalls, now>>

\* the subjects of a report: of the root domain, and entries of a timesheet
Subject(id) == [type |-> types[id], id |-> id, entry |-> "none"]
Entry(t, e) == [type |-> "Entry", id |-> t, entry |-> e]
\* what tsClone.read gives for the entries of a timesheet
EntriesOf(t) == IF t.name = "ts1" THEN <<"e1", "e2">> ELSE <<"e3">>
\* reportTimesheet: concat(consume([ts]), consume(result))
tsFlow(t) == <<Subject(t)>> \o [i \in 1..Len(EntriesOf(t)) |-> Entry(t, EntriesOf(t)[i])]

\* the timesheets of a project, and the orders the root can read them in
ProjectTimesheets(p) ==
  {t \in TsIds : t.account = p.account /\ types[t] = "Timesheet"}
Orders(S) ==
  {o \in [1..Cardinality(S) -> S] : \A i, j \in 1..Cardinality(S) : o[i] = o[j] => i = j}

RECURSIVE concatFlows(_, _)
concatFlows(order, part) ==
  IF order = <<>> THEN <<>>
  ELSE part[Head(order)] \o concatFlows(Tail(order), part)

\* the flows in the order they settled, not in the order of the timesheets
reportProject_asSettled(p, order, part, fin) == <<Subject(p)>> \o concatFlows(fin, part)
\* report on a project: concat(consume([owned]), ...tsFlows)
reportProject(p, order, part, fin) == <<Subject(p)>> \o concatFlows(order, part)

\* a switch that takes an id without a subject for a timesheet
reportKind_absent(type) ==
  CASE type \in {"Timesheet", "none"} -> "timesheet"
    [] type = "Project" -> "project"
    [] OTHER -> "notfound"
\* switch (owned?.['@type'])
reportKind(type) ==
  CASE type = "Timesheet" -> "timesheet"
    [] type = "Project" -> "project"
    [] OTHER -> "notfound"

\* Promise.all(timesheets.map(this.reportTimesheet)): every flow runs up to
\* its first await
startFlows(call, order) ==
  [call EXCEPT !.pc = "rpt_flows", !.how = "project", !.order = order,
     !.fl = [t \in TsIds |->
               IF \E i \in 1..Len(order) : order[i] = t
               THEN (IF InTable(t) THEN [pc |-> "read", h |-> table[toDomain(t)]]
                     ELSE [pc |-> "clone", h |-> 0])
               ELSE NoFlow]]

\* the read procedure: state.get(ownedId), then reportTimesheet up to the
\* first await of initTimesheet(tsId, false), or the flows of a project
RptResolve(c) ==
  /\ calls[c].pc = "rpt_lock"
  /\ ReadLockFree
  /\ LET t == calls[c].tsId
     IN IF reportKind(types[t]) = "notfound"
        THEN /\ calls' = Fail(c, "NotFound")
             /\ UNCHANGED lockR
        ELSE IF reportKind(types[t]) = "project"
        THEN /\ \A u \in ProjectTimesheets(t) : InTable(u) \/ CanClone(u)
             /\ \E order \in Orders(ProjectTimesheets(t)) :
                  calls' = [calls EXCEPT ![c] = startFlows(calls[c], order)]
             /\ lockR' = lockR \cup {c}
        ELSE IF InTable(t)
        THEN /\ calls' = [calls EXCEPT ![c].pc = "rpt_read", ![c].how = "table",
                                       ![c].h = table[toDomain(t)]]
             /\ lockR' = lockR \cup {c}
        ELSE /\ CanClone(t)
             /\ calls' = [calls EXCEPT ![c].pc = "rpt_clone", ![c].how = "cloned"]
             /\ lockR' = lockR \cup {c}
  /\ UNCHANGED <<phase, rootVars, cloneVars, tomb, lockW, taskVars, genCalls, now>>

RptCloned(c) ==
  /\ calls[c].pc = "rpt_clone"
  /\ cloneTimesheetOk(calls[c].tsId, FALSE)
  /\ calls' = [calls EXCEPT ![c].pc = "rpt_online",
                            ![c].h = FreeId(toDomain(calls[c].tsId))]
  /\ UNCHANGED <<phase, rootVars, tomb, lockVars, taskVars, genCalls, now>>

RptCloneFailed(c) ==
  /\ calls[c].pc = "rpt_clone"
  /\ calls' = Fail(c, "CloneFailed")
  /\ lockR' = lockR \ {c}
  /\ UNCHANGED <<phase, rootVars, cloneVars, tomb, lockW, taskVars, genCalls, now>>

RptOnline(c) ==
  /\ calls[c].pc = "rpt_online"
  /\ BecameOnline(toDomain(calls[c].tsId), calls[c].h)
  /\ calls' = [calls EXCEPT ![c].pc = "rpt_read"]
  /\ UNCHANGED <<phase, rootVars, cloneVars, tomb, lockVars, taskVars, genCalls, now>>

\* tsClone.read of the entries; the report resolves and the read ends
RptRead(c) ==
  /\ calls[c].pc = "rpt_read"
  /\ calls' = IF handles[toDomain(calls[c].tsId)][calls[c].h].state = "closed"
              THEN Fail(c, "CloneClosed")
              ELSE [calls EXCEPT ![c].pc = "done", ![c].res = "ok",
                                 ![c].out = tsFlow(calls[c].tsId)]
  /\ lockR' = lockR \ {c}
  /\ UNCHANGED <<phase, rootVars, cloneVars, tomb, lockW, taskVars, genCalls, now>>

\* a rejected reportTimesheet rejects Promise.all and with it the report,
\* while the other flows run on
flowFailed(c, t, e) ==
  LET failed == [calls EXCEPT ![c].fl[t].pc = "failed"]
  IN /\ calls' = IF calls[c].pc = "rpt_flows"
                 THEN [failed EXCEPT ![c].pc = "done", ![c].res = "error", ![c].err = e]
                 ELSE failed
     /\ lockR' = IF calls[c].pc = "rpt_flows" THEN lockR \ {c} ELSE lockR

\* cloneTimesheet of a flow resolves
FlowCloned(c, t) ==
  /\ calls[c].fl[t].pc = "clone"
  /\ cloneTimesheetOk(t, FALSE)
  /\ calls' = [calls EXCEPT ![c].fl[t] = [pc |-> "online", h |-> FreeId(toDomain(t))]]
  /\ UNCHANGED <<phase, rootVars, tomb, lockVars, taskVars, genCalls, now>>

\* cloneTimesheet of a flow rejects
FlowCloneFailed(c, t) ==
  /\ calls[c].fl[t].pc = "clone"
  /\ flowFailed(c, t, "CloneFailed")
  /\ UNCHANGED <<phase, rootVars, cloneVars, tomb, lockW, taskVars, genCalls, now>>

FlowOnline(c, t) ==
  /\ calls[c].fl[t].pc = "online"
  /\ BecameOnline(toDomain(t), calls[c].fl[t].h)
  /\ calls' = [calls EXCEPT ![c].fl[t].pc = "read"]
  /\ UNCHANGED <<phase, rootVars, cloneVars, tomb, lockVars, taskVars, genCalls, now>>

\* tsClone.read of a flow: the flow has its subjects
FlowRead(c, t) ==
  /\ calls[c].fl[t].pc = "read"
  /\ IF handles[toDomain(t)][calls[c].fl[t].h].state = "closed"
     THEN flowFailed(c, t, "CloneClosed")
     ELSE /\ calls' = [calls EXCEPT ![c].fl[t].pc = "done", ![c].part[t] = tsFlow(t),
                                    ![c].fin = Append(@, t)]
          /\ UNCHANGED lockR
  /\ UNCHANGED <<phase, rootVars, cloneVars, tomb, lockW, taskVars, genCalls, now>>

\* Promise.all resolves: the report of the project resolves and the read ends
PrjDone(c) ==
  /\ calls[c].pc = "rpt_flows"
  /\ \A i \in 1..Len(calls[c].order) : calls[c].fl[calls[c].order[i]].pc = "done"
  /\ calls' = [calls EXCEPT ![c].pc = "done", ![c].res = "ok",
                 ![c].out = reportProject(calls[c].tsId, calls[c].order,
                                          calls[c].part, calls[c].fin)]
  /\ lockR' = lockR \ {c}
  /\ UNCHANGED <<phase, rootVars, cloneVars, tomb, lockW, taskVars, genCalls, now>>

-----------------------------------------------------------------------------
(* Gateway.close *)

\* close(): close() of the root domain and of every clone in the table is
\* invoked, and Promise.all awaits them
GwClose(c) ==
  /\ phase = "ready"
  /\ ~HandlerBusy
  /\ \A d \in CallIds : calls[d].op = "idle"
  /\ phase' = "closing"
  /\ handles' = Closing(handles, TsIds)
  /\ calls' = [calls EXCEPT ![c] = [IdleCall EXCEPT !.op = "close", !.pc = "closing",
                                                     !.gw = TRUE]]
  /\ UNCHANGED <<rootVars, table, tomb, lockVars, taskVars, genCalls, now>>

\* Promise.all rejects with the first close() that rejects
closeRejected(c) ==
  IF calls[c].pc = "closing" THEN Fail(c, "CloseFailed") ELSE calls

\* close() of the root domain settles
CloseRoot(c) ==
  /\ calls[c].op = "close"
  /\ phase = "closing"
  /\ \/ phase' = "closed" /\ UNCHANGED calls
     \/ phase' = "close_failed" /\ calls' = closeRejected(c)
  /\ UNCHANGED <<rootVars, cloneVars, tomb, lockVars, taskVars, genCalls, now>>

\* close() of the clone of a domain settles
CloseHandle(c, dom) ==
  /\ calls[c].op = "close"
  /\ table[dom] # 0
  /\ handles[dom][table[dom]].state = "closing"
  /\ \/ /\ handles' = [handles EXCEPT ![dom][table[dom]].state = "closed"]
        /\ UNCHANGED calls
     \/ /\ handles' = [handles EXCEPT ![dom][table[dom]].state = "open"]
        /\ calls' = closeRejected(c)
  /\ UNCHANGED <<phase, rootVars, table, tomb, lockVars, taskVars, genCalls, now>>

\* Promise.all resolves: every close() has resolved
CloseDone(c) ==
  /\ calls[c].pc = "closing"
  /\ phase = "closed"
  /\ \A dom \in Domains : table[dom] # 0 => handles[dom][table[dom]].state = "closed"
  /\ calls' = [calls EXCEPT ![c].pc = "done", ![c].res = "ok"]
  /\ UNCHANGED <<phase, rootVars, cloneVars, tomb, lockVars, taskVars, genCalls, now>>

-----------------------------------------------------------------------------
(* Accounts, activation and verification *)

GatewaySecret == "gateway-secret"
Secrets == {GatewaySecret, "other-secret"}

\* expiresIn: '10m'
TokenTTL == 10
\* randomInt(111111, 1000000): from CodeMin inclusive to CodeMax exclusive
CodeMin == 111111
CodeMax == 1000000
\* the draw of randomInt(1000000)
Codes_fromZero == {0, CodeMax - 1}
Codes == {CodeMin, CodeMax - 1}

\* Number.toString(10): the decimal digits, the most significant first
RECURSIVE toString10(_)
toString10(n) == IF n < 10 THEN <<n>> ELSE Append(toString10(n \div 10), n % 10)

\* state.get(account) != null: the root domain has a property of the subject
accountExists(a) ==
  a \in accRec \/ emails[a] # {} \/ \E t \in owns : t.account = a

\* no check at all, and a check that takes an absent account for an empty one
activationAllowed_any(a, e) == TRUE
activationAllowed_registered(a, e) == e \in emails[a]
\* the check of activation: an account that exists must have the email
activationAllowed(a, e) == ~(accountExists(a) /\ e \notin emails[a])

\* a token signed under a secret that is not the gateway's
sign_other(email, t) == [email |-> email, secret |-> "other-secret", exp |-> t + TokenTTL]
\* jsonwebtoken.sign({ email }, secret, { keyid, expiresIn: '10m' })
sign(email, t) == [email |-> email, secret |-> GatewaySecret, exp |-> t + TokenTTL]
\* new Cryptr(code).encrypt(jwt)
encrypt(code, jwt) == [key |-> code, jwt |-> jwt]
\* new Cryptr(code).decrypt(jwe): the token, or nothing of use under another code
decrypt(code, jwe) == IF jwe.key = code THEN jwe.jwt ELSE NoToken

\* jsonwebtoken.verify(jwt, secret): the signature, then the expiry
verifyResult(jwt, t) ==
  IF jwt.secret # GatewaySecret THEN "JsonWebTokenError"
  ELSE IF t >= jwt.exp THEN "TokenExpiredError"
  ELSE "ok"

\* Gateway.verify as a step of a call: the payload, or the library's error
verify(call, jwt) ==
  LET marked == [call EXCEPT !.forged = jwt.secret # GatewaySecret,
                             !.expired = now >= jwt.exp, !.tok = jwt]
  IN IF verifyResult(jwt, now) = "ok"
     THEN [marked EXCEPT !.claims = jwt.email]
     ELSE [marked EXCEPT !.pc = "done", !.res = "error",
                         !.err = verifyResult(jwt, now)]

\* the tokens a client can present: those it got from activation and
\* decrypted with the code, and those it signed itself
Presentable ==
  {decrypt(calls[d].code, calls[d].jwe) :
     d \in {x \in CallIds : calls[x].op = "act" /\ calls[x].res = "ok"}}
    \cup {[email |-> "a@ex.org", secret |-> "other-secret", exp |-> now + TokenTTL]}

Tick ==
  /\ now + TickStep <= MaxTime
  /\ now' = now + TickStep
  /\ UNCHANGED <<phase, rootVars, cloneVars, tomb, lockVars, taskVars, calls, genCalls>>

\* Gateway.account(account, { orCreate }) is called
AccountCall(c, a, orCreate) ==
  /\ Serving
  /\ calls[c].op = "idle"
  /\ calls' = [calls EXCEPT ![c] = [IdleCall EXCEPT !.op = "getacc", !.pc = "acc_lock",
                                      !.user = a, !.orCreate = orCreate, !.gw = TRUE]]
  /\ UNCHANGED <<phase, rootVars, cloneVars, tomb, lockVars, taskVars, genCalls, now>>

\* the write procedure of account: state.get(account); without a new
\* Account to write the procedure ends
AccountGet(c) ==
  /\ calls[c].pc = "acc_lock"
  /\ WriteLockFree
  /\ IF accountExists(calls[c].user)
     THEN /\ calls' = [calls EXCEPT ![c].pc = "done", ![c].res = "ok",
                                    ![c].acc = calls[c].user]
          /\ UNCHANGED lockW
     ELSE IF calls[c].orCreate
     THEN /\ calls' = [calls EXCEPT ![c].pc = "acc_put"]
          /\ lockW' = lockW \cup {c}
     ELSE /\ calls' = [calls EXCEPT ![c].pc = "done", ![c].res = "ok"]
          /\ UNCHANGED lockW
  /\ UNCHANGED <<phase, rootVars, cloneVars, tomb, lockR, taskVars, genCalls, now>>

\* state.write(acc.toJSON()) of the new Account, and the procedure ends
AccountPut(c) ==
  /\ calls[c].pc = "acc_put"
  /\ accRec' = accRec \cup {calls[c].user}
  /\ calls' = [calls EXCEPT ![c].pc = "done", ![c].res = "ok", ![c].acc = calls[c].user,
                            ![c].made = TRUE]
  /\ lockW' = lockW \ {c}
  /\ UNCHANGED <<phase, owns, types, emails, cloneVars, tomb, lockR, taskVars,
                 genCalls, now>>

\* Gateway.activation(account, email) is called
ActCall(c, a, e) ==
  /\ Serving
  /\ calls[c].op = "idle"
  /\ calls' = [calls EXCEPT ![c] = [IdleCall EXCEPT !.op = "act", !.pc = "act_lock",
                                                     !.user = a, !.email = e, !.gw = TRUE]]
  /\ UNCHANGED <<phase, rootVars, cloneVars, tomb, lockVars, taskVars, genCalls, now>>

\* activation has returned { jwe, code }: to its caller, or to the route
\* /api/jwe, which gives the code to the notifier
activated(call) ==
  IF call.via = "jwe"
  THEN [call EXCEPT !.pc = "notify", !.sent = [email |-> call.email, code |-> call.code]]
  ELSE [call EXCEPT !.pc = "done", !.res = "ok"]

\* this.account(account) under the write lock, the check, sign and encrypt
Activation(c) ==
  /\ calls[c].pc = "act_lock"
  /\ WriteLockFree
  /\ IF activationAllowed(calls[c].user, calls[c].email)
     THEN \E n \in Codes :
            calls' = [calls EXCEPT ![c] =
                        activated([calls[c] EXCEPT !.code = toString10(n), !.at = now,
                           !.jwe = encrypt(toString10(n), sign(calls[c].email, now))])]
     ELSE calls' = Fail(c, "Unauthorized")
  /\ UNCHANGED <<phase, rootVars, cloneVars, tomb, lockVars, taskVars, genCalls, now>>

\* Gateway.verify(jwt) is called
VerifyCall(c, jwt) ==
  /\ Serving
  /\ calls[c].op = "idle"
  /\ LET v == verify([IdleCall EXCEPT !.op = "verify", !.gw = TRUE], jwt)
     IN calls' = [calls EXCEPT ![c] = IF v.pc = "done" THEN v
                                      ELSE [v EXCEPT !.pc = "done", !.res = "ok"]]
  /\ UNCHANGED <<phase, rootVars, cloneVars, tomb, lockVars, taskVars, genCalls, now>>

-----------------------------------------------------------------------------
(* The REST routes *)

GuardedRoutes == {"cfg", "rpt", "read", "write", "import"}

\* Authorization.verifyUser(gateway, { id }): the account of the user exists
\* and, with an id, is the account that owns it; ids holds the id, if any
verifyUser(user, ids) ==
  /\ accountExists(user)
  /\ \A id \in ids : user = id.account

\* a route that asks for nothing
routeGuard_open(via, user, t) == TRUE
\* what a route requires before its Gateway operation
routeGuard(via, user, t) ==
  verifyUser(user, IF via \in {"cfg", "rpt"} THEN {t} ELSE {})

\* a request arrives at /api/cfg, /api/rpt, /api/read, /api/write or /api/import
RestCall(c, via, user, t) ==
  /\ Serving
  /\ calls[c].op = "idle"
  /\ calls' = [calls EXCEPT ![c] = [IdleCall EXCEPT !.op = "rest", !.pc = "auth",
                                      !.via = via, !.user = user, !.tsId = t]]
  /\ UNCHANGED <<phase, rootVars, cloneVars, tomb, lockVars, taskVars, genCalls, now>>

\* the route after its await of verifyUser: the Gateway operation starts
routeOperation(call) ==
  CASE call.via = "cfg" -> timesheetConfigStart(call, call.tsId)
    [] call.via = "rpt" -> reportStart(call, call.tsId)
    [] OTHER -> [call EXCEPT !.op = "account", !.pc = "acct", !.gw = TRUE]

\* await new Authorization(req).verifyUser(...) settles
VerifyUser(c) ==
  /\ calls[c].pc = "auth"
  /\ ReadLockFree
  /\ calls' = IF routeGuard(calls[c].via, calls[c].user, calls[c].tsId)
              THEN [calls EXCEPT ![c] = routeOperation([calls[c] EXCEPT !.auth = "ok"])]
              ELSE [Fail(c, "Unauthorized") EXCEPT ![c].auth = "failed"]
  /\ UNCHANGED <<phase, rootVars, cloneVars, tomb, lockVars, taskVars, genCalls, now>>

\* acc.read, acc.write or acc.import settles and the response is sent
AcctDone(c) ==
  /\ calls[c].pc = "acct"
  /\ \E ok \in BOOLEAN :
       calls' = IF ok THEN [calls EXCEPT ![c].pc = "done", ![c].res = "ok"]
                ELSE Fail(c, "BadRequest")
  /\ UNCHANGED <<phase, rootVars, cloneVars, tomb, lockVars, taskVars, genCalls, now>>

\* a response with the code in it
jweResponse_withCode(call) == [jwe |-> call.jwe, code |-> call.code]
\* res.json({ jwe })
jweResponse(call) == [jwe |-> call.jwe, code |-> <<>>]

\* a request arrives at /api/jwe/:user: a bad email is refused, and
\* gateway.activation is called
RestJwe(c, user, email) ==
  /\ Serving
  /\ calls[c].op = "idle"
  /\ calls' = [calls EXCEPT ![c] =
                 IF email \in Emails
                 THEN [IdleCall EXCEPT !.op = "jwe", !.via = "jwe", !.pc = "act_lock",
                                       !.user = user, !.email = email, !.gw = TRUE]
                 ELSE [IdleCall EXCEPT !.op = "jwe", !.via = "jwe", !.pc = "done",
                                       !.user = user, !.email = email,
                                       !.res = "error", !.err = "BadRequest"]]
  /\ UNCHANGED <<phase, rootVars, cloneVars, tomb, lockVars, taskVars, genCalls, now>>

\* notifier.sendActivationCode(email, code) settles: res.json, or next(e)
NotifySettled(c) ==
  /\ calls[c].pc = "notify"
  /\ \E ok \in BOOLEAN :
       calls' = IF ok THEN [calls EXCEPT ![c].pc = "done", ![c].res = "ok",
                                         ![c].resp = jweResponse(calls[c])]
                ELSE Fail(c, "NotifierFailed")
  /\ UNCHANGED <<phase, rootVars, cloneVars, tomb, lockVars, taskVars, genCalls, now>>

\* a request arrives at /api/key/:user: gateway.verify(auth.jwt), and a
\* rejected token goes to next(e)
RestKey(c, user, jwt) ==
  /\ Serving
  /\ calls[c].op = "idle"
  /\ LET v == verify([IdleCall EXCEPT !.op = "key", !.via = "key", !.user = user], jwt)
     IN calls' = [calls EXCEPT ![c] = IF v.pc = "done" THEN v
                                      ELSE [v EXCEPT !.pc = "key_acct", !.email = jwt.email]]
  /\ UNCHANGED <<phase, rootVars, cloneVars, tomb, lockVars, taskVars, genCalls, now>>

\* Gateway.account(auth.user, { orCreate: true }): a new Account is written
KeyAccount(c) ==
  /\ calls[c].pc = "key_acct"
  /\ WriteLockFree
  /\ accRec' = IF accountExists(calls[c].user) THEN accRec ELSE accRec \cup {calls[c].user}
  /\ calls' = [calls EXCEPT ![c].pc = "key_activate", ![c].gw = TRUE]
  /\ UNCHANGED <<phase, owns, types, emails, cloneVars, tomb, lockVars, taskVars,
                 genCalls, now>>

\* acc.activate(email) settles and the key is sent
KeyActivate(c) ==
  /\ calls[c].pc = "key_activate"
  /\ \E ok \in BOOLEAN :
       calls' = IF ok THEN [calls EXCEPT ![c].pc = "done", ![c].res = "ok"]
                ELSE Fail(c, "ActivateFailed")
  /\ UNCHANGED <<phase, rootVars, cloneVars, tomb, lockVars, taskVars, genCalls, now>>

-----------------------------------------------------------------------------
(* TimeldApp.checkEditOwnEntries *)

Principals == {"P", "Q"}
\* the @type of a subject of a timesheet domain, and the provider of an entry
SubjectTypes == {"none", "Entry", "Session"}
Providers == {"none"} \cup Principals
\* state.get(id, '@type', providerProp) ?? { '@id': id }
Befores == [type : SubjectTypes, provider : Providers]
\* what the update of one subject does to its two properties: it deletes
\* the stored value or not, and inserts a value or none; an update that
\* does neither changes other properties of the subject
SubjectUpdates ==
  [delType : BOOLEAN, delProvider : BOOLEAN, insType : SubjectTypes, insProvider : Providers]
\* an update holds what the transaction changes: it deletes what is stored
\* and inserts what is not
Touches(before) ==
  {u \in SubjectUpdates :
     /\ u.delType => before.type # "none"
     /\ u.delProvider => before.provider # "none"
     /\ u.insType = "none" \/ u.insType # before.type
     /\ u.insProvider = "none" \/ u.insProvider # before.provider}

\* the value of a property once its deletes and inserts are applied: none,
\* the one value, or an array of several
applyProp(stored, del, ins) ==
  LET vals == (IF del THEN {} ELSE {stored} \ {"none"}) \cup ({ins} \ {"none"})
  IN IF vals = {} THEN "none"
     ELSE IF Cardinality(vals) = 1 THEN CHOOSE v \in vals : TRUE
     ELSE "many"
\* updateSubject(before, subjectUpdates)
updateSubject(before, u) ==
  [type |-> applyProp(before.type, u.delType, u.insType),
   provider |-> applyProp(before.provider, u.delProvider, u.insProvider)]

\* the test made for one subject of the update; updateSubject is the
\* engine's, and gives the updated subject as a copy or as `before` itself
subjectAllowed(pid, sub, inPlace) ==
  LET after == updateSubject(sub.before, sub.upd)
      before == IF inPlace THEN after ELSE sub.before
  IN before.type = "Entry" \/ after.type = "Entry" => after.provider = pid

\* Promise.all over the subjects of the update: one throw rejects the write
checkEditOwnEntries(wr) ==
  \A i \in 1..Len(wr.subs) : subjectAllowed(wr.pid, wr.subs[i], wr.inPlace)

\* the subjects a transaction updates beside the first
OtherSubs ==
  {[before |-> [type |-> "Session", provider |-> "none"],
    upd |-> [delType |-> FALSE, delProvider |-> FALSE, insType |-> "none",
             insProvider |-> "none"]],
   [before |-> [type |-> "none", provider |-> "none"],
    upd |-> [delType |-> FALSE, delProvider |-> FALSE, insType |-> "Entry",
             insProvider |-> "Q"]]}
Writes ==
  {<<[before |-> b, upd |-> u]>> : b \in Befores, u \in SubjectUpdates}
    \cup {<<[before |-> b, upd |-> u], o>> : b \in Befores, u \in SubjectUpdates,
                                              o \in OtherSubs}

\* a write transaction of principal pid is given to the constraint, one
\* transaction at a time
WriteCheck(c, pid, subs, inPlace) ==
  /\ calls[c].op = "idle"
  /\ \A d \in CallIds : calls[d].op # "write"
  /\ subs[1].upd \in Touches(subs[1].before)
  /\ LET wr == [pid |-> pid, subs |-> subs, inPlace |-> inPlace]
     IN calls' = [calls EXCEPT ![c] =
                    IF checkEditOwnEntries(wr)
                    THEN [IdleCall EXCEPT !.op = "write", !.pc = "done", !.wr = wr,
                                          !.res = "ok"]
                    ELSE [IdleCall EXCEPT !.op = "write", !.pc = "done", !.wr = wr,
                                          !.res = "error", !.err = "Unauthorised"]]
  /\ UNCHANGED <<phase, rootVars, cloneVars, tomb, lockVars, taskVars, genCalls, now>>

-----------------------------------------------------------------------------
(* Specifications *)

\* the gateway with its root domain changing under it
Next ==
  \/ InitCloneRoot
  \/ InitScan
  \/ \E t \in TsIds : ScanNext(t)
  \/ ScanEnd
  \/ \E t \in TsIds : AddCloned(t)
  \/ \E del \in SUBSET Focus, ins \in SUBSET Focus : RootUpdate(del, ins)
  \/ \E t \in TsIds : RemClosed(t)
  \/ \E t \in TsIds : RemData(t)
  \/ HandleOnline
  \/ \E c \in CallIds, t \in Focus : CfgCall(c, t)
  \/ \E c \in CallIds : CfgWrite(c)
  \/ \E c \in CallIds : CfgCloned(c)
  \/ \E c \in CallIds : CfgCloneFailed(c)
  \/ \E c \in CallIds : CfgOwn(c)
  \/ \E c \in CallIds : CfgReturn(c)
  \/ \E c \in CallIds, t \in Focus : RptCall(c, t)
  \/ \E c \in CallIds : RptResolve(c)
  \/ \E c \in CallIds : RptCloned(c)
  \/ \E c \in CallIds : RptCloneFailed(c)
  \/ \E c \in CallIds : RptOnline(c)
  \/ \E c \in CallIds : RptRead(c)
  \/ \E c \in CallIds : Retire(c)

Spec == Init /\ [][Next]_vars

\* requests for timesheets the root domain has never heard of, the root
\* domain left alone and the substrate working
InitRace ==
  /\ types \in {f \in [OwnedIds -> {"none", "Timesheet"}] :
                  \A id \in OwnedIds \ Focus : f[id] = "none"}
  /\ Constructed
  /\ owns = {}
  /\ accRec = {}

NextRace ==
  \/ InitCloneRoot
  \/ InitScan
  \/ ScanEnd
  \/ HandleOnline
  \/ \E c \in CallIds, t \in TsIds : CfgCall(c, t)
  \/ \E c \in CallIds : CfgWrite(c)
  \/ \E c \in CallIds : CfgCloned(c)
  \/ \E c \in CallIds : CfgOwn(c)
  \/ \E c \in CallIds : CfgReturn(c)
  \/ \E c \in CallIds : Retire(c)

SpecRace == InitRace /\ [][NextRace]_vars

\* the gateway behind its REST routes, the root domain left alone
InitApi ==
  /\ types = [id \in OwnedIds |-> IF id \in TsIds THEN "Timesheet" ELSE "none"]
  /\ Constructed
  /\ owns = {}
  /\ \A a \in Accounts : emails[a] \subseteq {"a@ex.org"}

NextApi ==
  \/ InitCloneRoot
  \/ InitScan
  \/ ScanEnd
  \/ HandleOnline
  \/ Tick
  \/ \E c \in CallIds, a \in Accounts, e \in Emails : ActCall(c, a, e)
  \/ \E c \in CallIds : Activation(c)
  \/ \E c \in CallIds, jwt \in Presentable : VerifyCall(c, jwt)
  \/ \E c \in CallIds, via \in GuardedRoutes, u \in Accounts, t \in Focus :
       RestCall(c, via, u, t)
  \/ \E c \in CallIds : VerifyUser(c)
  \/ \E c \in CallIds : AcctDone(c)
  \/ \E c \in CallIds, u \in Accounts, jwt \in Presentable : RestKey(c, u, jwt)
  \/ \E c \in CallIds : KeyAccount(c)
  \/ \E c \in CallIds : KeyActivate(c)
  \/ \E c \in CallIds : CfgWrite(c)
  \/ \E c \in CallIds : CfgCloned(c)
  \/ \E c \in CallIds : CfgCloneFailed(c)
  \/ \E c \in CallIds : CfgOwn(c)
  \/ \E c \in CallIds : CfgReturn(c)
  \/ \E c \in CallIds : RptResolve(c)
  \/ \E c \in CallIds : RptCloned(c)
  \/ \E c \in CallIds : RptCloneFailed(c)
  \/ \E c \in CallIds : RptOnline(c)
  \/ \E c \in CallIds : RptRead(c)
  \/ \E c \in CallIds : Retire(c)

SpecApi == InitApi /\ [][NextApi]_vars

\* the reports, the root domain left alone: acme has a project and the
\* timesheets in it
InitRpt ==
  /\ types \in {f \in [OwnedIds -> Types] :
                  /\ \A t \in TsIds : f[t] = (IF t.account = "acme" THEN "Timesheet" ELSE "none")
                  /\ \A p \in ProjectIds : f[p] \in {"Project", "Account"}}
  /\ owns \in {{}, {t \in TsIds : t.account = "acme"}}
  /\ Constructed
  /\ accRec = {}

\* a project, a timesheet, and an id the root domain has nothing of
ReportIds == ProjectIds \cup Focus \cup {[account |-> "test", name |-> "ts1"]}

NextRpt ==
  \/ InitCloneRoot
  \/ InitScan
  \/ \E t \in TsIds : ScanNext(t)
  \/ ScanEnd
  \/ \E t \in TsIds : AddCloned(t)
  \/ HandleOnline
  \/ \E c \in CallIds, id \in ReportIds : RptCall(c, id)
  \/ \E c \in CallIds : RptResolve(c)
  \/ \E c \in CallIds : RptCloned(c)
  \/ \E c \in CallIds : RptCloneFailed(c)
  \/ \E c \in CallIds : RptOnline(c)
  \/ \E c \in CallIds : RptRead(c)
  \/ \E c \in CallIds, t \in TsIds : FlowCloned(c, t)
  \/ \E c \in CallIds, t \in TsIds : FlowCloneFailed(c, t)
  \/ \E c \in CallIds, t \in TsIds : FlowOnline(c, t)
  \/ \E c \in CallIds, t \in TsIds : FlowRead(c, t)
  \/ \E c \in CallIds : PrjDone(c)
  \/ \E c \in CallIds : Retire(c)

SpecRpt == InitRpt /\ [][NextRpt]_vars

\* the gateway is started and closed
NextClose ==
  \/ InitCloneRoot
  \/ InitScan
  \/ \E t \in TsIds : ScanNext(t)
  \/ ScanEnd
  \/ \E t \in TsIds : AddCloned(t)
  \/ HandleOnline
  \/ \E c \in CallIds : GwClose(c)
  \/ \E c \in CallIds : CloseRoot(c)
  \/ \E c \in CallIds, dom \in Domains : CloseHandle(c, dom)
  \/ \E c \in CallIds : CloseDone(c)

SpecClose == InitRpt /\ [][NextClose]_vars

\* callers of Gateway.account
NextAcct ==
  \/ InitCloneRoot
  \/ InitScan
  \/ ScanEnd
  \/ \E c \in CallIds, a \in Accounts, orCreate \in BOOLEAN : AccountCall(c, a, orCreate)
  \/ \E c \in CallIds : AccountGet(c)
  \/ \E c \in CallIds : AccountPut(c)
  \/ \E c \in CallIds : Retire(c)

SpecAcct == InitApi /\ [][NextAcct]_vars

\* the activation requests
NextJwe ==
  \/ InitCloneRoot
  \/ InitScan
  \/ ScanEnd
  \/ Tick
  \/ \E c \in CallIds, a \in Accounts, e \in Emails \cup {"not an email"} : RestJwe(c, a, e)
  \/ \E c \in CallIds : Activation(c)
  \/ \E c \in CallIds : NotifySettled(c)
  \/ \E c \in CallIds : Retire(c)

SpecJwe == InitApi /\ [][NextJwe]_vars

\* the teardown of an account: one update deletes every timesheet reference
BatchIds == {t \in TsIds : t.account = "acme"}

InitBatch ==
  /\ types = [id \in OwnedIds |-> IF id \in BatchIds THEN "Timesheet" ELSE "none"]
  /\ Constructed
  /\ owns \subseteq BatchIds
  /\ accRec = {}

NextBatch ==
  \/ InitCloneRoot
  \/ InitScan
  \/ \E t \in TsIds : ScanNext(t)
  \/ ScanEnd
  \/ \E t \in TsIds : AddCloned(t)
  \/ HandleOnline
  \/ \E del \in {owns} : RootUpdate(del, {})
  \/ \E t \in TsIds : RemClosed(t)
  \/ \E t \in TsIds : RemData(t)

SpecBatch == InitBatch /\ [][NextBatch]_vars

\* every await of timesheetRemoved settles: close, rm and writeFile end
SpecBatchLive ==
  /\ SpecBatch
  /\ \A t \in BatchIds : WF_vars(RemClosed(t)) /\ WF_vars(RemData(t))

\* the gateway with no requests, its root domain changed by other clones
NextFollow ==
  \/ InitCloneRoot
  \/ InitScan
  \/ \E t \in TsIds : ScanNext(t)
  \/ ScanEnd
  \/ \E t \in TsIds : AddCloned(t)
  \/ HandleOnline
  \/ \E del \in SUBSET BatchIds, ins \in SUBSET BatchIds : RootUpdate(del, ins)
  \/ \E t \in TsIds : RemClosed(t)
  \/ \E t \in TsIds : RemData(t)

SpecFollow == InitBatch /\ [][NextFollow]_vars

\* the eager scan of initialise and the requests for a config
NextScan ==
  \/ InitCloneRoot
  \/ InitScan
  \/ \E t \in TsIds : ScanNext(t)
  \/ ScanEnd
  \/ \E t \in TsIds : AddCloned(t)
  \/ HandleOnline
  \/ \E c \in CallIds, t \in BatchIds : CfgCall(c, t)
  \/ \E c \in CallIds : CfgWrite(c)
  \/ \E c \in CallIds : CfgCloned(c)
  \/ \E c \in CallIds : CfgCloneFailed(c)
  \/ \E c \in CallIds : CfgOwn(c)
  \/ \E c \in CallIds : CfgReturn(c)
  \/ \E c \in CallIds : Retire(c)

SpecScan == InitBatch /\ [][NextScan]_vars

\* the scan delivers its results, every clone invoked settles
SpecScanLive ==
  /\ SpecScan
  /\ \A t \in BatchIds : WF_vars(ScanNext(t)) /\ WF_vars(AddCloned(t))
  /\ WF_vars(ScanEnd)

\* the write transactions of a timesheet domain
NextWrite ==
  \/ \E c \in CallIds, pid \in Principals, subs \in Writes, inPlace \in BOOLEAN :
       WriteCheck(c, pid, subs, inPlace)
  \/ \E c \in CallIds : Retire(c)

SpecWrite == InitBatch /\ [][NextWrite]_vars

-----------------------------------------------------------------------------
(* Properties *)

CfgDone(c) == calls[c].op = "cfg" /\ calls[c].pc = "done"
CfgOk(c) == CfgDone(c) /\ calls[c].res = "ok"
OpenClones(dom) == {h \in CloneIds : handles[dom][h].state \in {"open", "closing"}}

C2_OneClonePerDomain ==
  \A d \in Domains : Cardinality(OpenClones(d)) + InFlight(d) <= 1

TsOf(dom) == CHOOSE t \in TsIds : toDomain(t) = dom

\* the step in which the write procedure of call c decides
CfgDecides(c) == calls[c].pc = "cfg_lock" /\ calls'[c].pc # "cfg_lock"
\* the step in which clone(config, path) resolves with a genesis clone
GenesisCreated(dom, h) ==
  /\ handles[dom][h].state = "none"
  /\ handles'[dom][h].state = "open"
  /\ handles'[dom][h].genesis
\* the step in which timesheetConfig returns the config
CfgReturns(c) ==
  /\ calls[c].op = "cfg" /\ calls[c].pc # "done"
  /\ calls'[c].pc = "done" /\ calls'[c].res = "ok"

\* C3 as stated: a timesheetConfig call for a tsId that has a tombstone and no
\* ownership record when it is made ends with Conflict, and no genesis clone
\* is created for a tombstoned tsId
C3_Original ==
  [][/\ \A c \in CallIds :
          calls[c].op = "cfg" /\ calls[c].pc # "done" /\ calls'[c].pc = "done"
            /\ calls[c].tombed /\ ~calls[c].owned
          => calls'[c].err = "Conflict"
     /\ \A d \in Domains, h \in CloneIds :
          GenesisCreated(d, h) => getDataPath(TsOf(d)) \notin tomb]_vars

\* C3 amended: when the write procedure of timesheetConfig(tsId) runs with a
\* tombstone for tsId, no ownership record and no key for the domain in the
\* table, the call fails with Conflict, and no genesis clone is ever created
\* for a tsId whose tombstone exists
C3_ConflictUnderLock ==
  [][/\ \A c \in CallIds :
          CfgDecides(c) /\ getDataPath(calls[c].tsId) \in tomb
            /\ calls[c].tsId \notin owns /\ table[toDomain(calls[c].tsId)] = 0
          => calls'[c].pc = "done" /\ calls'[c].err = "Conflict"
     /\ \A d \in Domains, h \in CloneIds :
          GenesisCreated(d, h) => getDataPath(TsOf(d)) \notin tomb]_vars

C3_Witness ==
  \E c \in CallIds :
    /\ CfgDone(c) /\ calls[c].err = "Conflict"
    /\ getDataPath(calls[c].tsId) \in tomb
    /\ calls[c].tsId \notin owns

\* C4 as stated: a timesheetConfig call made once the tombstone of its tsId
\* exists never succeeds
C4_Original ==
  \A c \in CallIds : CfgDone(c) /\ calls[c].tombed => calls[c].res = "error"

\* C4 amended: a timesheetConfig call made once the tombstone of its tsId
\* exists succeeds only as a join, through a key in the table or a clone
\* with genesis=false after the ownership was inserted again
C4_OnlyJoins ==
  \A c \in CallIds :
    CfgOk(c) /\ calls[c].tombed
    => \/ calls[c].how \in {"table", "locked"}
       \/ calls[c].how = "cloned" /\ ~calls[c].genesis

C4_Witness ==
  \E c \in CallIds :
    CfgOk(c) /\ calls[c].tombed /\ calls[c].how = "cloned" /\ ~calls[c].genesis

\* C5: every config timesheetConfig returns has genesis false, no @id, no
\* ably.key and the @domain of its tsId, the genesis clone included
C5_ReturnedConfig ==
  \A c \in CallIds :
    CfgOk(c) => /\ calls[c].cfg["genesis"] = "false"
                /\ calls[c].cfg["@id"] = "undefined"
                /\ calls[c].cfg["ably.key"] = "undefined"
                /\ calls[c].cfg["@domain"] = toDomain(calls[c].tsId)
                /\ calls[c].cfg["@domain"] # GatewayConfig["@domain"]

C5_Witness ==
  \E c \in CallIds :
    /\ CfgOk(c) /\ calls[c].how = "cloned" /\ calls[c].genesis
    /\ handles[toDomain(calls[c].tsId)][calls[c].h].genesis

\* C6 as stated: when timesheetConfig returns, its write procedure has
\* written the ownership or the root domain records it
C6_Original ==
  [][\A c \in CallIds :
       CfgReturns(c) =>
         calls[c].how \in {"locked", "cloned"} \/ calls[c].tsId \in owns]_vars

\* C6 amended: when the write procedure of timesheetConfig(tsId) ends well,
\* the root domain records the ownership; a call that finds the key in
\* the table returns without a write procedure
C6_OwnershipWritten ==
  [][\A c \in CallIds :
       /\ calls[c].pc \in {"cfg_lock", "cfg_online"} /\ calls'[c].pc = "cfg_ret"
            => calls[c].tsId \in owns'
       /\ CfgReturns(c) /\ calls[c].how = "table" => owns' = owns]_vars

C6_Witness ==
  \E c \in CallIds :
    /\ CfgOk(c) /\ calls[c].how = "cloned" /\ ~calls[c].owned
    /\ calls[c].tsId \in owns

\* the step in which a route of call c invokes its Gateway operation
GwInvoked(c) == ~calls[c].gw /\ calls'[c].gw /\ calls'[c].via # "direct"
RouteIds(c) == IF calls[c].via \in {"cfg", "rpt"} THEN {calls[c].tsId} ELSE {}

\* C7 as stated: every route, the key activation with its account creation
\* included, invokes its Gateway operation only after verifyUser succeeded
C7_Original ==
  [][\A c \in CallIds : GwInvoked(c) => calls'[c].auth = "ok"]_vars

\* C7 amended: the routes for timesheet config, report and account read,
\* write and import invoke their Gateway operation only in the step in which
\* verifyUser succeeds, and a verifyUser that fails ends the request with
\* Unauthorized and no Gateway operation; key activation creates the account
\* without verifyUser, once gateway.verify has accepted the token
C7_GuardedRoutes ==
  [][\A c \in CallIds :
       /\ GwInvoked(c) /\ calls'[c].via \in GuardedRoutes
            => /\ calls[c].pc = "auth"
               /\ verifyUser(calls[c].user, RouteIds(c))
               /\ calls'[c].auth = "ok"
       /\ GwInvoked(c) /\ calls'[c].via = "key"
            => /\ calls[c].claims # "none"
               /\ ~calls[c].forged /\ ~calls[c].expired
               /\ calls'[c].auth = "none"
       /\ calls[c].pc = "auth" /\ calls'[c].pc # "auth"
            /\ ~verifyUser(calls[c].user, RouteIds(c))
            => /\ calls'[c].pc = "done" /\ calls'[c].err = "Unauthorized"
               /\ ~calls'[c].gw]_vars

C7_Witness ==
  \E c, d \in CallIds :
    /\ calls[c].via = "cfg" /\ CfgOk(c) /\ calls[c].auth = "ok"
    /\ calls[d].via \in GuardedRoutes /\ calls[d].auth = "failed"
    /\ calls[d].pc = "done" /\ ~calls[d].gw

\* the step in which activation of call c settles
ActivationSettles(c) == calls[c].pc = "act_lock" /\ calls'[c].pc = "done"
Issued(c) ==
  /\ calls'[c].res = "ok"
  /\ calls'[c].code \in {toString10(n) : n \in CodeMin..(CodeMin + 1)}
                         \cup {toString10(n) : n \in (CodeMax - 2)..(CodeMax - 1)}
  /\ calls'[c].jwe.key = calls'[c].code
  /\ calls'[c].jwe.jwt = [email |-> calls[c].email, secret |-> GatewaySecret,
                          exp |-> now + TokenTTL]
Refused(c) ==
  /\ calls'[c].res = "error" /\ calls'[c].err = "Unauthorized"
  /\ calls'[c].jwe = NoJwe /\ calls'[c].code = <<>>

\* C8: activation for an account with registered emails yields a token and a
\* code when the email is one of them, and for any other email fails with
\* Unauthorized and yields neither
C8_RegisteredEmailOnly ==
  [][\A c \in CallIds :
       ActivationSettles(c) /\ emails[calls[c].user] # {}
       => IF calls[c].email \in emails[calls[c].user] THEN Issued(c) ELSE Refused(c)]_vars

C8_Witness ==
  \E c, d \in CallIds :
    /\ calls[c].op = "act" /\ calls[c].res = "ok"
    /\ calls[c].email \in emails[calls[c].user]
    /\ calls[d].op = "act" /\ calls[d].err = "Unauthorized"
    /\ emails[calls[d].user] # {} /\ calls[d].email \notin emails[calls[d].user]

\* C9 as stated: activation for an account with no registered email
\* succeeds, whether the root domain has the account or not
C9_Original ==
  [][\A c \in CallIds :
       ActivationSettles(c) /\ emails[calls[c].user] = {} => calls'[c].res = "ok"]_vars

\* C9 amended: activation for an account with no registered email succeeds
\* when the root domain has nothing of the account, and fails with
\* Unauthorized when it has the account with an empty email set
C9_AbsentAccountOnly ==
  [][\A c \in CallIds :
       ActivationSettles(c) /\ emails[calls[c].user] = {}
       => IF accountExists(calls[c].user) THEN Refused(c) ELSE Issued(c)]_vars

C9_Witness ==
  \E c, d \in CallIds :
    /\ calls[c].op = "act" /\ calls[c].res = "ok"
    /\ ~accountExists(calls[c].user)
    /\ calls[d].op = "act" /\ calls[d].err = "Unauthorized"
    /\ emails[calls[d].user] = {} /\ accountExists(calls[d].user)

\* C10: verify gives no claims for a token signed under another secret or
\* past its expiry, and its caller, the /api/key route included, gets an
\* Unauthorized failure
C10_RejectsAsUnauthorized ==
  \A c \in CallIds :
    calls[c].op \in {"verify", "key"} /\ (calls[c].forged \/ calls[c].expired)
    => /\ calls[c].claims = "none"
       /\ calls[c].res = "error"
       /\ calls[c].err = "Unauthorized"

\* the step in which verify is called by call c
VerifyCalled(c) == calls[c].op = "idle" /\ calls'[c].op = "verify"
ActOk(d) == calls[d].op = "act" /\ calls[d].res = "ok"

\* C11: the token of every {jwe, code} activation returned, decrypted with
\* the code and given to verify less than TokenTTL after its issue, yields
\* claims with the email given to activation, and verify changes nothing of
\* the gateway, so that the token verifies again until it expires
C11_RoundTrip ==
  [][\A c, d \in CallIds :
       /\ VerifyCalled(c) /\ ActOk(d)
       /\ calls'[c].tok = decrypt(calls[d].code, calls[d].jwe)
       /\ now < calls[d].at + TokenTTL
       => /\ calls'[c].res = "ok"
          /\ calls'[c].claims = calls[d].email
          /\ calls'[d] = calls[d]
          /\ UNCHANGED <<phase, rootVars, cloneVars, tomb, lockVars, taskVars,
                         genCalls, now>>]_vars

C11_Witness ==
  \E c, d \in CallIds :
    /\ ActOk(d)
    /\ calls[c].op = "verify" /\ calls[c].res = "ok"
    /\ calls[c].tok = decrypt(calls[d].code, calls[d].jwe)
    /\ calls[c].claims = calls[d].email
    /\ now > calls[d].at /\ now < calls[d].at + TokenTTL

RptOk(c) == calls[c].op = "rpt" /\ calls[c].pc = "done" /\ calls[c].res = "ok"
IsHead(s) == s.type = "Timesheet"
HeadIds(out) == LET hs == SelectSeq(out, IsHead) IN [i \in 1..Len(hs) |-> hs[i].id]
\* the entries of timesheet t in out, in the order out has them
EntriesIn(out, t) ==
  LET IsOf(s) == s.type = "Entry" /\ s.id = t
      es == SelectSeq(out, IsOf)
  IN [i \in 1..Len(es) |-> es[i].entry]
\* every entry of out belongs to the last timesheet before it
InBlocks(out) ==
  \A i \in 1..Len(out) :
    out[i].type = "Entry"
    => \E k \in 1..(i - 1) :
         /\ IsHead(out[k]) /\ out[k].id = out[i].id
         /\ \A j \in (k + 1)..(i - 1) : ~IsHead(out[j])

\* C12: a report on a timesheet is the timesheet followed by its entries; a
\* report on a project is the project, then the timesheets of the project
\* in the order the root gave them, each followed at once by all of its
\* entries and by no entry of another timesheet
C12_ReportOrder ==
  \A c \in CallIds :
    RptOk(c) =>
      LET out == calls[c].out
          id == calls[c].tsId
      IN /\ Len(out) >= 1
         /\ out[1] = Subject(id)
         /\ \A i \in 2..Len(out) : out[i].type \in {"Timesheet", "Entry"}
         /\ InBlocks(out)
         /\ HeadIds(out) = (IF calls[c].how = "project" THEN calls[c].order ELSE <<id>>)
         /\ \A t \in TsIds :
              EntriesIn(out, t) = (IF \E i \in 1..Len(HeadIds(out)) : HeadIds(out)[i] = t
                                   THEN EntriesOf(t) ELSE <<>>)

C12_Witness ==
  \E c \in CallIds :
    /\ RptOk(c) /\ calls[c].how = "project"
    /\ Len(calls[c].order) = 2
    /\ calls[c].fin # calls[c].order

\* the step in which the read procedure of report looks at the subject
RptLooks(c) == calls[c].pc = "rpt_lock" /\ calls'[c].pc # "rpt_lock"

\* C13: report for an id without a subject in the root domain, or with a
\* subject that is neither a Timesheet nor a Project, fails with NotFound
\* and no clone is opened for it
C13_NotFound ==
  [][\A c \in CallIds :
       RptLooks(c) /\ types[calls[c].tsId] \notin {"Timesheet", "Project"}
       => /\ calls'[c].pc = "done" /\ calls'[c].err = "NotFound"
          /\ calls'[c].out = <<>>
          /\ ~FlowRunning(calls'[c])
          /\ UNCHANGED <<cloneVars, lockR>>]_vars

C13_Witness ==
  \E c, d \in CallIds :
    /\ calls[c].op = "rpt" /\ calls[c].err = "NotFound"
    /\ types[calls[c].tsId] = "none"
    /\ calls[d].op = "rpt" /\ calls[d].err = "NotFound"
    /\ types[calls[d].tsId] = "Account"
    /\ \A dom \in Domains : Live(dom) = {}

\* C14: close() closes the root and every clone of the table also when a
\* close fails, and its caller sees no failure
C14_CloseTolerant ==
  \A c \in CallIds :
    calls[c].op = "close" /\ calls[c].pc = "done"
    => /\ calls[c].res = "ok"
       /\ \A dom \in Domains :
            table[dom] # 0 => handles[dom][table[dom]].state \in {"closing", "closed"}

\* the steps of account: the lookup, and the write of the new record
AccountLooks(c) == calls[c].pc = "acc_lock" /\ calls'[c].pc # "acc_lock"
AccountPuts(c) == calls[c].pc = "acc_put" /\ calls'[c].pc = "done"

\* C15: account(name) returns the Account exactly when the root domain has
\* the account; for an unknown name it returns nothing and leaves the root as
\* it is unless orCreate is set, and then it writes the record; a record that
\* exists is never written again, also by a concurrent account(name, orCreate)
C15_Account ==
  [][\A c \in CallIds :
       /\ AccountLooks(c) /\ accountExists(calls[c].user)
            => /\ calls'[c].pc = "done" /\ calls'[c].acc = calls[c].user
               /\ ~calls'[c].made /\ UNCHANGED rootVars
       /\ AccountLooks(c) /\ ~accountExists(calls[c].user) /\ ~calls[c].orCreate
            => /\ calls'[c].pc = "done" /\ calls'[c].acc = "none"
               /\ calls'[c].res = "ok" /\ UNCHANGED rootVars
       /\ AccountLooks(c) /\ ~accountExists(calls[c].user) /\ calls[c].orCreate
            => calls'[c].pc = "acc_put" /\ UNCHANGED rootVars
       /\ AccountPuts(c)
            => /\ ~accountExists(calls[c].user)
               /\ accRec' = accRec \cup {calls[c].user}
               /\ UNCHANGED <<owns, types, emails>>
               /\ calls'[c].acc = calls[c].user /\ calls'[c].made]_vars

C15_Witness ==
  \E c, d \in CallIds :
    /\ c # d /\ calls[c].user = calls[d].user
    /\ calls[c].op = "getacc" /\ calls[c].orCreate /\ calls[c].made
    /\ calls[d].op = "getacc" /\ calls[d].orCreate /\ ~calls[d].made
    /\ calls[d].pc = "done" /\ calls[d].acc = calls[d].user

\* the requests to /api/jwe that were answered with a body, and those that
\* failed at the notifier
JweAnswered(c) == calls[c].op = "jwe" /\ calls[c].resp # NoResp
JweLost(c) == calls[c].op = "jwe" /\ calls[c].err = "NotifierFailed"

\* C16: the response to an activation request never holds the code; it holds
\* the encrypted token, and only once the notifier was given (email, code)
\* and succeeded; a request whose notifier failed is answered with no token
C16_CodeOutOfBand ==
  \A c \in CallIds :
    /\ calls[c].resp.code = <<>>
    /\ JweAnswered(c)
       => /\ calls[c].pc = "done" /\ calls[c].res = "ok"
          /\ calls[c].resp.jwe = calls[c].jwe /\ calls[c].jwe # NoJwe
          /\ calls[c].sent = [email |-> calls[c].email, code |-> calls[c].code]
          /\ calls[c].code # <<>>
    /\ calls[c].op = "jwe" /\ calls[c].sent = NoSent => calls[c].resp = NoResp
    /\ JweLost(c) => calls[c].resp = NoResp /\ calls[c].res = "error"

C16_Witness ==
  \E c, d \in CallIds :
    /\ JweAnswered(c) /\ calls[c].sent.code = calls[c].code
    /\ JweLost(d) /\ calls[d].sent # NoSent

\* the number a string of decimal digits denotes
RECURSIVE digitsValue(_)
digitsValue(ds) ==
  IF ds = <<>> THEN 0 ELSE 10 * digitsValue(SubSeq(ds, 1, Len(ds) - 1)) + ds[Len(ds)]

\* the codes activation has made: of the calls, and those given to the notifier
CodesMade ==
  {calls[c].code : c \in CallIds} \cup {calls[c].sent.code : c \in CallIds}

\* C17: every activation code is a string of exactly six decimal digits
\* whose value is between 111111 and 999999
C17_SixDigits ==
  \A code \in CodesMade \ {<<>>} :
    /\ Len(code) = 6
    /\ \A i \in 1..Len(code) : code[i] \in 0..9
    /\ digitsValue(code) \in 111111..999999

C17_Witness ==
  /\ \E c \in CallIds : calls[c].res = "ok" /\ digitsValue(calls[c].code) = 111111
  /\ \E c \in CallIds : calls[c].res = "ok" /\ digitsValue(calls[c].code) = 999999

\* the gateway's clone of the domain, as the table has it, is online
ReplicaOnline(dom) == table[dom] # 0 /\ handles[dom][table[dom]].online

\* C18: timesheetConfig returns a config only when the gateway's clone of the
\* timesheet's domain is online
C18_OnlineBeforeReturn ==
  [][\A c \in CallIds :
       CfgReturns(c) => ReplicaOnline(toDomain(calls[c].tsId))]_vars

\* the step in which timesheetRemoved(t) completes
RemovalCompletes(t) == rem[t] # "idle" /\ rem'[t] = "idle"

\* C19: when timesheetRemoved(tsId) completes, with or without a failed
\* step, the table has no entry for the domain name of tsId
C19_EntryDeleted ==
  [][\A t \in TsIds : RemovalCompletes(t) => table'[toDomain(t)] = 0]_vars

\* the step in which close() rejects, or rm or writeFile, so that no
\* tombstone is written
RemovalFails(t) ==
  \/ rem[t] = "closing" /\ rem'[t] \notin {"closing", "rm"}
  \/ rem[t] = "rm" /\ rem'[t] # "rm" /\ getDataPath(t) \notin tomb'

\* C20: timesheetRemoved never ends in a rejection: a removal whose step
\* fails completes in that step as one that succeeded does, the other
\* removals of the update are left as they are, and each of them completes
C20_FailureLogged ==
  /\ [](\A t \in TsIds : rem[t] \in {"idle", "closing", "rm"})
  /\ [][\A t, u \in TsIds :
          t # u /\ RemovalFails(t) => rem'[t] = "idle" /\ rem'[u] = rem[u]]_vars
  /\ \A t \in BatchIds : (rem[t] # "idle") ~> (rem[t] = "idle")

C20_Witness ==
  \E t, u \in BatchIds :
    /\ t # u /\ owns = {} /\ phase = "ready"
    /\ rem[t] = "idle" /\ InTable(t) /\ getDataPath(t) \notin tomb
    /\ rem[u] = "idle" /\ ~InTable(u) /\ getDataPath(u) \in tomb

\* initialise has returned and no handler of a root update is running
HandlersDone == phase = "ready" /\ ~HandlerBusy

\* C21: once the handlers of the root updates have finished, the table has
\* a handle only for a timesheet the root domain refers to, and a timesheet
\* whose reference was deleted has its tombstone
C21_TableFollowsRoot ==
  HandlersDone
  => \A t \in TsIds :
       /\ InTable(t) => t \in owns
       /\ Live(toDomain(t)) # {} /\ t \notin owns => tsTombstoneExists(t)

\* the step in which the clone invoked by timesheetAdded(t) rejects
OpenFails(t) == add[t] = "cloning" /\ add'[t] # "cloning" /\ ~InTable(t)'

\* C22: a clone that fails in the scan of initialise leaves timesheetAdded
\* completed, the domain name out of the table and the scan as it was, so
\* that the scan goes on to its end; a timesheetConfig that later finds the
\* domain name absent invokes the clone again
C22_ScanBestEffort ==
  /\ [](\A t \in TsIds : add[t] \in {"idle", "cloning"})
  /\ [][\A t \in TsIds :
          OpenFails(t) => /\ add'[t] = "idle"
                          /\ phase' = phase /\ scanTodo' = scanTodo
                          /\ table' = table]_vars
  /\ [][\A c \in CallIds :
          CfgDecides(c) /\ ~InTable(calls[c].tsId) /\ calls'[c].err # "Conflict"
          => calls'[c].pc = "cfg_clone"]_vars
  /\ \A t \in BatchIds : (phase = "scanning" /\ t \in scanTodo)
                           ~> (t \notin scanTodo /\ add[t] = "idle")
  /\ (phase = "scanning") ~> (phase = "ready")

C22_Witness ==
  \E t, u \in BatchIds, c \in CallIds :
    /\ t # u /\ owns = BatchIds /\ phase = "ready"
    /\ ~InTable(t) /\ InTable(u)
    /\ calls[c].tsId = t /\ calls[c].pc = "cfg_clone"

\* initialise has not yet seen the root domain report outdated=false
BeforeUpToDate == phase \in {"constructed", "outdated", "failed"}

\* C23: until the root domain has reported outdated=false no timesheet
\* clone is opened or invoked and no request is made of the gateway, and
\* the scan of the timesheet references starts in the step that follows it
C23_AfterOutdated ==
  /\ [](BeforeUpToDate
        => /\ \A d \in Domains : table[d] = 0 /\ Live(d) = {} /\ InFlight(d) = 0
           /\ scanTodo = {}
           /\ \A c \in CallIds : calls[c] = IdleCall)
  /\ [][phase' = "scanning" /\ phase # "scanning"
        => phase = "outdated" /\ scanTodo' = owns]_vars

C23_Witness ==
  /\ phase = "outdated" /\ owns = BatchIds
  /\ \A t \in BatchIds : ~InTable(t) /\ add[t] = "idle"

\* the steps of report c in which a timesheet clone is opened, and in which
\* the entries of a timesheet clone are read
TenantOpened(c) ==
  \/ calls[c].pc = "rpt_clone" /\ calls'[c].pc = "rpt_online"
  \/ \E t \in TsIds : calls[c].fl[t].pc = "clone" /\ calls'[c].fl[t].pc = "online"
TenantRead(c) ==
  \/ calls[c].pc = "rpt_read" /\ calls'[c].res = "ok"
  \/ \E t \in TsIds : calls[c].fl[t].pc = "read" /\ calls'[c].fl[t].pc = "done"

\* C24: report opens no timesheet clone and reads no entries of one while
\* its read procedure of the root domain is still running
C24_RootReleasedFirst ==
  [][\A c \in CallIds : TenantOpened(c) \/ TenantRead(c) => c \notin lockR]_vars

\* a step of the report call c
RptSteps(c) == calls[c].op = "rpt" /\ calls'[c] # calls[c]

\* C25 as stated: no step of a report changes the table, the clones or the
\* root domain
C25_ReportReadOnly ==
  [][\A c \in CallIds :
       RptSteps(c) => UNCHANGED <<table, handles, owns, types, accRec, emails>>]_vars

\* C25: a report writes nothing to the root domain and no tombstone and
\* leaves every clone there is as it is; a report that took its handle
\* from the table changes neither table nor clones, and what any other
\* step of a report changes is one new clone, opened to join its domain
\* and assigned to its domain name in the table
C25_ReportOpensOnly ==
  [][\A c \in CallIds :
       RptSteps(c)
       => /\ UNCHANGED <<owns, types, accRec, emails, tomb>>
          /\ calls[c].how = "table" => UNCHANGED <<table, handles>>
          /\ \A d \in Domains :
               /\ \A h \in CloneIds :
                    handles'[d][h] # handles[d][h]
                    => /\ handles[d][h] = NoHandle
                       /\ handles'[d][h] = NewHandle(FALSE)
                       /\ table'[d] = h
               /\ table'[d] # table[d] => handles'[d] # handles[d]]_vars

C25_Witness ==
  \E c, d \in CallIds :
    /\ calls[c].op = "rpt" /\ calls[c].how = "cloned" /\ calls[c].res = "ok"
    /\ InTable(calls[c].tsId)
    /\ calls[d].op = "rpt" /\ calls[d].how = "table" /\ calls[d].res = "ok"

\* the step in which the timesheetConfig call c fails with Conflict
CfgConflicts(c) ==
  calls[c].op = "cfg" /\ calls[c].pc # "done" /\ calls'[c].err = "Conflict"

\* C26: the step in which timesheetConfig fails with Conflict leaves the
\* clones, the table, the root domain, the tombstones and the handler's
\* tasks as they were, and the call has invoked no clone before it
C26_ConflictChangesNothing ==
  [][\A c \in CallIds :
       CfgConflicts(c)
       => /\ UNCHANGED <<table, handles, owns, types, accRec, emails, tomb,
                         add, rem, genCalls, lockW, lockR>>
          /\ calls[c].pc = "cfg_lock" /\ calls[c].how = "none"
          /\ calls[c].tsId \notin owns']_vars

C26_Witness ==
  \E c \in CallIds :
    /\ calls[c].op = "cfg" /\ calls[c].err = "Conflict"
    /\ calls[c].tsId \notin owns /\ ~InTable(calls[c].tsId)

\* the step in which call c is given the handle that the table has for its
\* timesheet: by the table test of timesheetConfig or by initTimesheet
TakenFromTable(c) ==
  calls[c].how = "none" /\ calls'[c].how \in {"table", "locked"}

\* C27: a handle that a timesheetConfig or a report takes from the table
\* is open: it is not closed and not being closed
C27_NoClosedHandle ==
  [][\A c \in CallIds :
       TakenFromTable(c)
       => LET dom == toDomain(calls'[c].tsId)
          IN handles[dom][table[dom]].state = "open"]_vars

WriteSubs(c) == {calls[c].wr.subs[i] : i \in 1..Len(calls[c].wr.subs)}
OthersEntry(c, sub) ==
  sub.before.type = "Entry" /\ sub.before.provider \in Principals \ {calls[c].wr.pid}
TouchesEntry(sub) ==
  sub.before.type = "Entry" \/ updateSubject(sub.before, sub.upd).type = "Entry"

\* C29: a write that updates an Entry whose stored provider is another
\* principal is rejected as Unauthorised, and a write none of whose
\* subjects is an Entry before or after it is accepted
C29_OwnEntriesOnly ==
  \A c \in CallIds :
    calls[c].op = "write"
    => /\ (\E sub \in WriteSubs(c) : OthersEntry(c, sub))
          => calls[c].res = "error" /\ calls[c].err = "Unauthorised"
       /\ (\A sub \in WriteSubs(c) : ~TouchesEntry(sub)) => calls[c].res = "ok"

====
